---------------------------- MODULE Spec2Model ----------------------------
(***************************************************************************)
(* A model of prebuilt/otf2clm.py, the converter from an OpenType font to   *)
(* the binary `clm` format.                                                 *)
(*                                                                          *)
(* The font-parsing library (fontforge) is the environment: the variable    *)
(* `font` holds what it hands to the script.  The script runs under         *)
(* Python 3 (its shebang, and bytes('c', 'ascii')), so map() and filter()   *)
(* return one-shot iterators that have no len(); the model keeps that       *)
(* distinction (PyList / PyIter).                                           *)
(*                                                                          *)
(* The output file is modelled as the sequence of groups of values the      *)
(* script packs into it ("chunks"), each chunk labelled with the writer     *)
(* that produced it; the file's content is the chunks' data in order.       *)
(***************************************************************************)
EXTENDS Integers, Sequences, FiniteSets, TLC

VARIABLES
    pc,     \* where the run is: the next statement group, or "done"/"raised"/"usage"
    argc,   \* len(sys.argv)
    font,   \* what fontforge supplies (read-only input)
    env,    \* the locals of parse_otf / the arguments of the function under check
    f,      \* the output file: [exists, chunks]
    forest, \* write_ligas: the list of top-level trie nodes
    k,      \* write_ligas: number of rules folded in so far
    v,      \* read_glyph_path: the path's `d` attribute, a sequence of characters
    data    \* read_glyph_path: the parsed command list

vars == <<pc, argc, font, env, f, forest, k, v, data>>

----------------------------------------------------------------------------
(* Bounds of the model.                                                     *)

\* len(sys.argv) ranges over 1..MaxArgc
MaxArgc == 6
\* a font has 0..MaxTables kerning class tables
MaxTables == 2
\* each side of a kerning class table has 1..MaxClasses classes (class 0 included)
MaxClasses == 3
\* write_ligas is given 0..MaxRules rules
MaxRules == 3
\* a path description has 0..MaxTokens tokens
MaxTokens == 4
\* mirror is given a list of 0..MaxCmds commands
MaxCmds == 2

----------------------------------------------------------------------------
(* Generic helpers.                                                         *)

RECURSIVE Flatten(_)
Flatten(ss) == IF ss = <<>> THEN <<>> ELSE Head(ss) \o Flatten(Tail(ss))

RECURSIVE SeqsUpTo(_, _)
\* all sequences over S of length 0..n
SeqsUpTo(S, n) ==
    IF n = 0 THEN {<<>>}
    ELSE LET shorter == SeqsUpTo(S, n - 1)
         IN  shorter \cup {Append(s, x) : s \in {t \in shorter : Len(t) = n - 1}, x \in S}

\* sorted(xs, key=lambda x: x[0]) on a list of tuples: Python's sort is stable
RECURSIVE InsertByFirst(_, _)
InsertByFirst(x, sorted) ==
    IF sorted = <<>> THEN <<x>>
    ELSE IF x[1] < Head(sorted)[1] THEN <<x>> \o sorted
    ELSE <<Head(sorted)>> \o InsertByFirst(x, Tail(sorted))

RECURSIVE SortedByFirst(_)
SortedByFirst(xs) ==
    IF xs = <<>> THEN <<>>
    ELSE InsertByFirst(xs[Len(xs)], SortedByFirst(SubSeq(xs, 1, Len(xs) - 1)))

\* A Python list (or tuple): iterable any number of times, has len().
PyList(items) == [lazy |-> FALSE, items |-> items]
\* A Python 3 map/filter object: iterable once, has no len().
PyIter(items) == [lazy |-> TRUE, items |-> items]
\* What is left of x after it has been iterated to the end once.
Exhausted(x) == IF x.lazy THEN PyIter(<<>>) ELSE x

\* The result of a writer: ok = FALSE when it raised; chunks = what it wrote before.
Wrote(chunks) == [ok |-> TRUE, chunks |-> chunks]
Raised(chunks) == [ok |-> FALSE, chunks |-> chunks]
Then(r1, r2) ==
    IF r1.ok THEN [ok |-> r2.ok, chunks |-> r1.chunks \o r2.chunks] ELSE r1
Chunk(tag, d) == [tag |-> tag, data |-> d]

\* struct.pack('?', b)
PackBool(b) == IF b THEN 1 ELSE 0

----------------------------------------------------------------------------
(* read_glyph_path: the path parser and the mirror step.                    *)

DigitChars == {"0", "1", "2", "3", "4", "5", "6", "7", "8", "9"}

DigitVal(c) ==
    CASE c = "0" -> 0 [] c = "1" -> 1 [] c = "2" -> 2 [] c = "3" -> 3
      [] c = "4" -> 4 [] c = "5" -> 5 [] c = "6" -> 6 [] c = "7" -> 7
      [] c = "8" -> 8 [] c = "9" -> 9

path_cmd_arg_cnt(x) ==
    IF x \in {"M", "m", "L", "l", "T", "t"} THEN 2
    ELSE IF x \in {"H", "h", "V", "v"} THEN 1
    ELSE IF x \in {"C", "c"} THEN 6
    ELSE IF x \in {"S", "s", "Q", "q"} THEN 4
    ELSE IF x \in {"Z", "z"} THEN -1
    ELSE 0

is_valid_digit(c) == c = "." \/ c = "-" \/ c \in DigitChars

\* Positions are 1-based here (Python's v[j] is s[j + 1]); reading past the end of
\* the string raises IndexError, reported as position 0.
RECURSIVE DigitsEnd(_, _)
DigitsEnd(s, j) ==
    IF j > Len(s) THEN 0
    ELSE IF is_valid_digit(s[j]) THEN DigitsEnd(s, j + 1)
    ELSE j

RECURSIVE SkipToDigit(_, _)
SkipToDigit(s, i) ==
    IF i > Len(s) THEN 0
    ELSE IF ~is_valid_digit(s[i]) THEN SkipToDigit(s, i + 1)
    ELSE i

RECURSIVE DecimalValue(_)
DecimalValue(ds) ==
    IF ds = <<>> THEN 0
    ELSE 10 * DecimalValue(SubSeq(ds, 1, Len(ds) - 1)) + DigitVal(ds[Len(ds)])

\* int(str) for a string of characters accepted by is_valid_digit: an optional
\* single leading '-' and then digits only; anything else raises ValueError.
PyInt(str) ==
    LET body == IF str # <<>> /\ Head(str) = "-" THEN Tail(str) ELSE str
    IN  IF body # <<>> /\ \A p \in 1..Len(body) : body[p] \in DigitChars
        THEN [ok |-> TRUE,
              val |-> IF Head(str) = "-" THEN -DecimalValue(body) ELSE DecimalValue(body)]
        ELSE [ok |-> FALSE, val |-> 0]

\* the `for j in range(0, cnt)` loop: cnt operands appended to cmd, from position i
RECURSIVE ParseArgs(_, _, _, _)
ParseArgs(s, i, cnt, args) ==
    IF cnt <= 0 THEN [ok |-> TRUE, i |-> i, args |-> args]
    ELSE LET st == SkipToDigit(s, i)
             en == DigitsEnd(s, st)
             r  == PyInt(SubSeq(s, st, en - 1))
         IN  IF st = 0 \/ en = 0 \/ ~r.ok THEN [ok |-> FALSE, i |-> i, args |-> args]
             ELSE ParseArgs(s, en, cnt - 1, Append(args, r.val))

\* the `while i < len(v)` loop.  A command [x, a1, ...] is [op |-> x, args |-> <<a1, ...>>].
RECURSIVE ParseFrom(_, _, _)
ParseFrom(s, i, cmds) ==
    IF i > Len(s) THEN [ok |-> TRUE, data |-> cmds]
    ELSE LET x   == s[i]
             cnt == path_cmd_arg_cnt(x)
         IN  IF cnt = 0 THEN ParseFrom(s, i + 1, cmds)
             ELSE LET r == ParseArgs(s, i + 1, cnt, <<>>)
                  IN  IF ~r.ok THEN [ok |-> FALSE, data |-> cmds]
                      ELSE ParseFrom(s, r.i, Append(cmds, [op |-> x, args |-> r.args]))

ParsePath(s) == ParseFrom(s, 1, <<>>)

Negate(args, idxs) == [p \in 1..Len(args) |-> IF p \in idxs THEN -args[p] ELSE args[p]]

\* mirror_cmd that takes H with V, the way path_cmd_arg_cnt groups them
MirrorCmdAlsoH(t) ==
    LET x == t.op
    IN  IF x \in {"M", "m", "L", "l", "T", "t"} THEN [t EXCEPT !.args = Negate(t.args, {2})]
        ELSE IF x \in {"H", "h", "V", "v"} THEN [t EXCEPT !.args = Negate(t.args, {1})]
        ELSE IF x \in {"C", "c"} THEN [t EXCEPT !.args = Negate(t.args, {2, 4, 6})]
        ELSE IF x \in {"S", "s", "Q", "q"} THEN [t EXCEPT !.args = Negate(t.args, {2, 4})]
        ELSE t

\* t[n] of the source is args[n] here (t[0] is the opcode)
mirror_cmd(t) ==
    LET x == t.op
    IN  IF x \in {"M", "m", "L", "l", "T", "t"} THEN [t EXCEPT !.args = Negate(t.args, {2})]
        ELSE IF x \in {"V", "v"} THEN [t EXCEPT !.args = Negate(t.args, {1})]
        ELSE IF x \in {"C", "c"} THEN [t EXCEPT !.args = Negate(t.args, {2, 4, 6})]
        ELSE IF x \in {"S", "s", "Q", "q"} THEN [t EXCEPT !.args = Negate(t.args, {2, 4})]
        ELSE t

mirror(cmds) == [p \in 1..Len(cmds) |-> mirror_cmd(cmds[p])]

\* read_glyph_path from the `d` attribute on: parse, then mirror
ReadGlyphPath(s) ==
    LET r == ParsePath(s)
    IN  IF r.ok THEN [ok |-> TRUE, data |-> mirror(r.data)] ELSE r

----------------------------------------------------------------------------
(* The name -> id map.  A lookup of a name that is not a key raises KeyError. *)

HasKey(glyph_name_id_map, name) == name \in DOMAIN glyph_name_id_map

\* values written into one chunk: ok = FALSE when a write or a lookup raised
DWrote(d) == [ok |-> TRUE, data |-> d]
DRaised(d) == [ok |-> FALSE, data |-> d]
DThen(r1, r2) ==
    IF r1.ok THEN [ok |-> r2.ok, data |-> r1.data \o r2.data] ELSE r1

\* one chunk from the values written, and whether the writer went on
AsChunk(tag, r) == [ok |-> r.ok, chunks |-> <<Chunk(tag, r.data)>>]

----------------------------------------------------------------------------
(* write_clm_unicode_glyph_map                                              *)

write_clm_unicode_glyph_map(unicode_glyph_map) ==
    LET sort_map == SortedByFirst(unicode_glyph_map)
    IN  Wrote(<<Chunk("unicode", <<Len(unicode_glyph_map)>> \o Flatten(sort_map))>>)

----------------------------------------------------------------------------
(* write_clm_kerning_class                                                  *)

\* left[1:] / right[1:]: the buckets after the first
Rest(side) == SubSeq(side, 2, Len(side))

\* The chain `write_classes`, applied to enumerate(side[1:]).  Its first stage is a
\* map(): a one-shot iterator.  The second stage calls len() on it, which raises
\* TypeError for an iterator, before anything is written.  The remaining stages
\* are what would run on a list: the bucket count, then the (glyph id, class
\* index) pairs of all buckets sorted by glyph id, with their count first.
write_classes(tag, buckets, glyph_name_id_map) ==
    LET xs    == PyIter([b \in 1..Len(buckets) |->
                           [m \in 1..Len(buckets[b]) |-> <<buckets[b][m], b - 1>>]])
        flat  == Flatten(xs.items)
        known == \A p \in 1..Len(flat) : HasKey(glyph_name_id_map, flat[p][1])
        ids   == [p \in 1..Len(flat) |-> <<glyph_name_id_map[flat[p][1]], flat[p][2]>>]
        srt   == SortedByFirst(ids)
    IN  IF xs.lazy THEN Raised(<<>>)
        ELSE IF ~known THEN Raised(<<Chunk(tag, <<Len(xs.items)>>)>>)
        ELSE Wrote(<<Chunk(tag, <<Len(xs.items), Len(srt)>> \o Flatten(srt))>>)

\* the value loop: cell i (0-based) is skipped when i < column_count or
\* i % column_count == 0
KeptValues(value, column_count) ==
    LET Keep(p) == ~((p - 1) < column_count \/ (p - 1) % column_count = 0)
        RECURSIVE From(_)
        From(p) == IF p > Len(value) THEN <<>>
                   ELSE (IF Keep(p) THEN <<value[p]>> ELSE <<>>) \o From(p + 1)
    IN  From(1)

\* one iteration of `for (left, right, value,) in kerning_classes`
WriteKerningTable(table, glyph_name_id_map) ==
    Then(write_classes("kc_left", Rest(table.left), glyph_name_id_map),
    Then(write_classes("kc_right", Rest(table.right), glyph_name_id_map),
         Wrote(<<Chunk("kc_values", KeptValues(table.value, Len(table.right)))>>)))

RECURSIVE WriteKerningTables(_, _)
WriteKerningTables(tables, glyph_name_id_map) ==
    IF tables = <<>> THEN Wrote(<<>>)
    ELSE Then(WriteKerningTable(Head(tables), glyph_name_id_map),
              WriteKerningTables(Tail(tables), glyph_name_id_map))

\* len(list(kerning_classes)) iterates the argument to its end; the for loop then
\* iterates what is left of it
write_clm_kerning_class(kerning_classes, glyph_name_id_map) ==
    LET length == Len(kerning_classes.items)
        left   == Exhausted(kerning_classes)
    IN  Then(Wrote(<<Chunk("kc_count", <<length>>)>>),
             WriteKerningTables(left.items, glyph_name_id_map))

----------------------------------------------------------------------------
(* write_ligas                                                              *)

\* find_first with a predicate that never holds
FindFirstNever(children, glyph) == 0

\* find_first(children, lambda x: x['glyph'] == glyph): its position, 0 for None
FindFirst(children, glyph) ==
    IF \E p \in 1..Len(children) : children[p].glyph = glyph
    THEN CHOOSE p \in 1..Len(children) :
            /\ children[p].glyph = glyph
            /\ \A q \in 1..(p - 1) : children[q].glyph # glyph
    ELSE 0

\* add_node's walk from the list `children` on.  The glyphs are a map() over the
\* rule's names, so each name is looked up when the walk reaches it; a missing
\* name raises KeyError there.
RECURSIVE AddNodeFrom(_, _, _, _)
AddNodeFrom(children, chars, liga, glyph_name_id_map) ==
    LET char == Head(chars)
    IN  IF ~HasKey(glyph_name_id_map, char) THEN [ok |-> FALSE, children |-> children]
        ELSE LET glyph == glyph_name_id_map[char]
                 found == FindFirst(children, glyph)
                 child == IF found = 0
                          THEN [glyph |-> glyph, char |-> char, liga |-> -1, children |-> <<>>]
                          ELSE children[found]
                 with  == IF found = 0 THEN Append(children, child) ELSE children
                 pos   == IF found = 0 THEN Len(with) ELSE found
             IN  IF Len(chars) = 1
                 THEN [ok |-> TRUE, children |-> [with EXCEPT ![pos].liga = liga]]
                 ELSE LET sub == AddNodeFrom(child.children, Tail(chars), liga,
                                             glyph_name_id_map)
                      IN  [ok |-> sub.ok,
                           children |-> [with EXCEPT ![pos].children = sub.children]]

\* add_node for one rule (chars, liga); with no component `child` stays None and
\* the final assignment raises TypeError
add_node(trie, rule, glyph_name_id_map) ==
    IF rule.chars = <<>> THEN [ok |-> FALSE, children |-> trie]
    ELSE AddNodeFrom(trie, rule.chars, rule.liga, glyph_name_id_map)

\* the loop `for (chars, liga,) in ligas`, from rule n on
RECURSIVE FoldRules(_, _, _, _)
FoldRules(trie, ligas, n, glyph_name_id_map) ==
    IF n > Len(ligas) THEN [ok |-> TRUE, children |-> trie]
    ELSE LET r == add_node(trie, ligas[n], glyph_name_id_map)
         IN  IF r.ok THEN FoldRules(r.children, ligas, n + 1, glyph_name_id_map) ELSE r

\* sorted(children, key=lambda x: x['glyph'])
RECURSIVE InsertByGlyph(_, _)
InsertByGlyph(x, sorted) ==
    IF sorted = <<>> THEN <<x>>
    ELSE IF x.glyph < Head(sorted).glyph THEN <<x>> \o sorted
    ELSE <<Head(sorted)>> \o InsertByGlyph(x, Tail(sorted))

RECURSIVE SortedByGlyph(_)
SortedByGlyph(xs) ==
    IF xs = <<>> THEN <<>>
    ELSE InsertByGlyph(xs[Len(xs)], SortedByGlyph(SubSeq(xs, 1, Len(xs) - 1)))

\* sort_children that leaves the children in insertion order
SortChildrenNot(children) == children

RECURSIVE sort_children(_)
sort_children(children) ==
    SortedByGlyph([p \in 1..Len(children) |->
                     [children[p] EXCEPT !.children = sort_children(children[p].children)]])

\* write_node on the node (glyph, liga, children)
RECURSIVE write_node(_, _, _)
write_node(glyph, liga, children) ==
    <<glyph, liga, Len(children)>>
        \o Flatten([p \in 1..Len(children) |->
                      write_node(children[p].glyph, children[p].liga, children[p].children)])

\* sort the forest and write the trie from the root (glyph 0, liga -1)
WriteTrie(trie) == write_node(0, -1, sort_children(trie))

write_ligas(ligas, glyph_name_id_map) ==
    LET r == FoldRules(<<>>, ligas, 1, glyph_name_id_map)
    IN  IF r.ok THEN Wrote(<<Chunk("ligas", WriteTrie(r.children))>>) ELSE Raised(<<>>)

----------------------------------------------------------------------------
(* Reading a glyph.  Numbers fontforge gives as floats (the bounding box,    *)
(* xHeight) are kept in half units: h stands for h / 2.                      *)

\* int(x) of a float kept in half units: truncation toward zero
IntOfHalves(h) == IF h >= 0 THEN h \div 2 ELSE -((-h) \div 2)

Max(a, b) == IF a >= b THEN a ELSE b
Min(a, b) == IF a <= b THEN a ELSE b

\* (width, height, depth); width is an integer, kept in half units like the others
read_metrics(glyph) ==
    <<2 * glyph.width, Max(0, glyph.boundingBox[4]), -Min(0, glyph.boundingBox[2])>>

\* read_variants: the names of a space-separated variants string, [] when it is empty
read_variants(variants) == IF variants = <<>> THEN <<>> ELSE variants

read_math(glyph) ==
    [italicCorrection |-> glyph.italicCorrection,
     topaccent        |-> glyph.topaccent,
     hvariants        |-> read_variants(glyph.horizontalVariants),
     vvariants        |-> read_variants(glyph.verticalVariants),
     scripts          |-> glyph.scripts,
     hassembly        |-> glyph.horizontalAssembly,
     vassembly        |-> glyph.verticalAssembly,
     mathKern         |-> glyph.mathKern]

\* read_kern: the chain ends in filter() and map(), so the result is an iterator
\* over the (name, kerning) pairs whose kerning is not 0
read_kern(glyph) ==
    LET horizontal == SelectSeq(glyph.kern_infos, LAMBDA kern_info : kern_info[2] # 0)
    IN  PyIter(horizontal)

None == "None"

\* read_glyph; reading the path may raise
read_glyph(glyph, is_math_font, parse_path) ==
    LET path == IF parse_path THEN ReadGlyphPath(glyph.d) ELSE [ok |-> TRUE, data |-> None]
    IN  [ok    |-> path.ok,
         glyph |-> [metrics |-> read_metrics(glyph),
                    kerns   |-> read_kern(glyph),
                    math    |-> IF is_math_font THEN read_math(glyph) ELSE None,
                    path    |-> path.data,
                    name    |-> glyph.glyphname]]

\* read_ligatures: ((name, ...), this glyph's id) for each ligature the glyph is
\* the result of
read_ligatures(glyph) ==
    [p \in 1..Len(glyph.ligatures) |->
        [chars |-> glyph.ligatures[p], liga |-> glyph.originalgid]]

\* read_kerning_class: a map() over the kerning class subtables, an iterator
read_kerning_class(fnt) == PyIter(fnt.kerning_classes)

----------------------------------------------------------------------------
(* write_glyphs                                                             *)

write_metrics(metrics) == DWrote([p \in 1..Len(metrics) |-> IntOfHalves(metrics[p])])

\* map(lambda x: (glyph_name_id_map[x[0]], x[1]), kerns) consumed by sorted()
ResolvePairs(pairs, glyph_name_id_map) ==
    [p \in 1..Len(pairs) |-> <<glyph_name_id_map[pairs[p][1]], pairs[p][2]>>]

\* write_kerns: an iterator is always true, so `not kerns` holds of an empty list
\* only; len(list(kerns)) iterates kerns to its end before the pairs are sorted
write_kerns(kerns, glyph_name_id_map) ==
    IF ~kerns.lazy /\ kerns.items = <<>> THEN DWrote(<<0>>)
    ELSE LET count == Len(kerns.items)
             left  == Exhausted(kerns).items
         IN  IF \E p \in 1..Len(left) : ~HasKey(glyph_name_id_map, left[p][1])
             THEN DRaised(<<count>>)
             ELSE DWrote(<<count>>
                         \o Flatten(SortedByFirst(ResolvePairs(left, glyph_name_id_map))))

\* the ids of the names, one write each, up to the first name that is not a key
RECURSIVE WriteIds(_, _)
WriteIds(names, glyph_name_id_map) ==
    IF names = <<>> THEN DWrote(<<>>)
    ELSE IF ~HasKey(glyph_name_id_map, Head(names)) THEN DRaised(<<>>)
    ELSE DThen(DWrote(<<glyph_name_id_map[Head(names)]>>),
               WriteIds(Tail(names), glyph_name_id_map))

write_variants(variants, glyph_name_id_map) ==
    DThen(DWrote(<<Len(variants)>>), WriteIds(variants, glyph_name_id_map))

\* the parts of an assembly: the part's glyph id, then its four other fields
RECURSIVE WriteParts(_, _)
WriteParts(parts, glyph_name_id_map) ==
    IF parts = <<>> THEN DWrote(<<>>)
    ELSE IF ~HasKey(glyph_name_id_map, Head(parts)[1]) THEN DRaised(<<>>)
    ELSE DThen(DWrote(<<glyph_name_id_map[Head(parts)[1]]>> \o Tail(Head(parts))),
               WriteParts(Tail(parts), glyph_name_id_map))

\* assembly = (italics correction, parts)
write_glyph_assembly(assembly, glyph_name_id_map) ==
    IF assembly[2] = <<>> THEN DWrote(<<PackBool(FALSE)>>)
    ELSE DThen(DWrote(<<PackBool(TRUE), Len(assembly[2]), assembly[1]>>),
               WriteParts(assembly[2], glyph_name_id_map))

\* the four corners; an absent (None or empty) corner is written as count 0
write_math_kern(math_kerns) ==
    DWrote(Flatten([c \in 1..Len(math_kerns) |->
                      <<Len(math_kerns[c])>> \o Flatten(math_kerns[c])]))

write_math(math, glyph_name_id_map) ==
    DThen(DWrote(<<math.italicCorrection, math.topaccent>>),
    DThen(write_variants(math.hvariants, glyph_name_id_map),
    DThen(write_variants(math.vvariants, glyph_name_id_map),
    DThen(write_variants(math.scripts, glyph_name_id_map),
    DThen(write_glyph_assembly(math.hassembly, glyph_name_id_map),
    DThen(write_glyph_assembly(math.vassembly, glyph_name_id_map),
          write_math_kern(math.mathKern)))))))

\* the count, then each command's opcode and operands
write_path(path) ==
    DWrote(<<Len(path)>> \o Flatten([p \in 1..Len(path) |-> <<path[p].op>> \o path[p].args]))

\* one iteration of `for glyph in glyphs`
WriteGlyph(glyph, glyph_name_id_map, is_math_font, have_glyph_path) ==
    Then(AsChunk("glyph_metrics", write_metrics(glyph.metrics)),
    Then(AsChunk("glyph_kerns", write_kerns(glyph.kerns, glyph_name_id_map)),
    Then(IF is_math_font
         THEN AsChunk("glyph_math", write_math(glyph.math, glyph_name_id_map))
         ELSE Wrote(<<>>),
         IF have_glyph_path
         THEN AsChunk("glyph_path", write_path(glyph.path))
         ELSE Wrote(<<>>))))

RECURSIVE WriteGlyphsFrom(_, _, _, _)
WriteGlyphsFrom(glyphs, glyph_name_id_map, is_math_font, have_glyph_path) ==
    IF glyphs = <<>> THEN Wrote(<<>>)
    ELSE Then(WriteGlyph(Head(glyphs), glyph_name_id_map, is_math_font, have_glyph_path),
              WriteGlyphsFrom(Tail(glyphs), glyph_name_id_map, is_math_font,
                              have_glyph_path))

write_glyphs(glyphs, glyph_name_id_map, is_math_font, have_glyph_path) ==
    Then(Wrote(<<Chunk("glyph_count", <<Len(glyphs)>>)>>),
         WriteGlyphsFrom(glyphs, glyph_name_id_map, is_math_font, have_glyph_path))

\* write_math_consts
write_math_consts(consts) == Wrote(<<Chunk("math_consts", consts)>>)

----------------------------------------------------------------------------
(* The fonts of the model: three glyphs a, b, c with ids 0, 1, 2 and         *)
(* unicode 98, 97, none.  "zz" names no glyph of the font.                    *)

\* the number of constants read_math_consts lists
NumMathConsts == 57

GlyphOf(name, gid, unicode, kern_infos, ligatures, hvariants, d) ==
    [glyphname |-> name, originalgid |-> gid, unicode |-> unicode,
     width |-> 10 + gid, boundingBox |-> <<0, -3 - gid, 18, 15>>,
     kern_infos |-> kern_infos, ligatures |-> ligatures,
     italicCorrection |-> gid, topaccent |-> 32767,
     horizontalVariants |-> hvariants, verticalVariants |-> <<>>,
     scripts |-> <<>>,
     horizontalAssembly |-> <<0, <<>>>>,
     verticalAssembly |-> <<3, << <<"a", 1, 2, 3, 4>> >> >>,
     mathKern |-> << <<>>, << <<1, 2>> >>, <<>>, <<>> >>,
     d |-> d]

\* (target name, horizontal kerning) of each pair fontforge reports for glyph a
KernInfoChoices ==
    { <<>>,
      << <<"b", 5>> >>,
      << <<"c", 7>>, <<"b", 0>>, <<"b", -3>> >> }

\* the component names of the ligatures glyph c is the result of
LigatureChoices ==
    { <<>>,
      << <<"a", "b">> >>,
      << <<"a", "b">>, <<"a">> >>,
      << <<"a", "zz">> >> }

\* the horizontal variants of glyph b
VariantChoices == { <<>>, <<"c", "a">>, <<"zz">> }

\* the path description of every glyph
PathChoices ==
    { <<>>,
      <<"M", " ", "1", " ", "2", " ", "Z">>,
      <<"H", " ", "1", ".", "5", " ", "Z">> }

\* A kerning class table: rows left classes, cols right classes (class 0, which
\* fontforge gives as None, included) and rows * cols values, cell p holding p.
\* The buckets after the first hold glyph names.
LeftBucket(n) == IF n = 1 THEN <<>> ELSE IF n % 2 = 0 THEN <<"b", "a">> ELSE <<"c">>
RightBucket(n) == IF n = 1 THEN <<>> ELSE IF n % 2 = 0 THEN <<"c">> ELSE <<"a", "b">>
KerningTable(rows, cols) ==
    [left  |-> [n \in 1..rows |-> LeftBucket(n)],
     right |-> [n \in 1..cols |-> RightBucket(n)],
     value |-> [p \in 1..(rows * cols) |-> p]]

Fonts ==
    { [glyphs |-> << GlyphOf("a", 0, 98, ki, <<>>, <<>>, d),
                     GlyphOf("b", 1, 97, <<>>, <<>>, hv, d),
                     GlyphOf("c", 2, -1, <<>>, lg, <<>>, d) >>,
       kerning_classes |-> [j \in 1..n |-> KerningTable(2, 1 + j)],
       em |-> 1000, xHeight |-> 901, ascent |-> 800, descent |-> 200,
       math |-> [c \in 1..NumMathConsts |-> c]]
      : ki \in KernInfoChoices, lg \in LigatureChoices, hv \in VariantChoices,
        d \in PathChoices, n \in 0..MaxTables }

NoFont ==
    [glyphs |-> <<>>, kerning_classes |-> <<>>,
     em |-> 0, xHeight |-> 0, ascent |-> 0, descent |-> 0, math |-> <<>>]

\* the locals of parse_otf before anything is read
NoEnv ==
    [is_math_font |-> FALSE, have_glyph_path |-> FALSE,
     math_consts |-> <<>>, kern_class_tables |-> PyList(<<>>),
     unicode_glyph_map |-> <<>>, glyph_name_id_map |-> <<>>,
     glyphs |-> <<>>, ligas |-> <<>>]

NoFile == [exists |-> FALSE, chunks |-> <<>>]

----------------------------------------------------------------------------
(* main and parse_otf.                                                      *)

Init ==
    /\ pc = "main"
    /\ argc \in 1..MaxArgc
    /\ font \in Fonts
    /\ \E m \in BOOLEAN, g \in BOOLEAN :
          env = [NoEnv EXCEPT !.is_math_font = m, !.have_glyph_path = g]
    /\ f = NoFile
    /\ forest = <<>>
    /\ k = 0
    /\ v = <<>>
    /\ data = <<>>

\* main: fewer than 4 entries in sys.argv prints the usage text and returns
MainUsage ==
    /\ pc = "main"
    /\ argc < 4
    /\ pc' = "usage"
    /\ UNCHANGED <<argc, font, env, f, forest, k, v, data>>

\* main: evaluating the arguments of the call reads sys.argv[4]; with exactly 4
\* entries that raises IndexError before parse_otf is entered
MainIndexError ==
    /\ pc = "main"
    /\ argc = 4
    /\ pc' = "raised"
    /\ UNCHANGED <<argc, font, env, f, forest, k, v, data>>

MainCall ==
    /\ pc = "main"
    /\ argc > 4
    /\ pc' = "read"
    /\ UNCHANGED <<argc, font, env, f, forest, k, v, data>>

read_math_consts(fnt) == fnt.math

\* the glyphs read so far with glyph number n added (the body of `for glyph_name in font`)
RECURSIVE ReadGlyphs(_, _, _)
ReadGlyphs(fnt, n, e) ==
    IF n > Len(fnt.glyphs) THEN [ok |-> TRUE, env |-> e]
    ELSE LET glyph == fnt.glyphs[n]
             r     == read_glyph(glyph, e.is_math_font, e.have_glyph_path)
             names == DOMAIN e.glyph_name_id_map \cup {glyph.glyphname}
         IN  IF ~r.ok THEN [ok |-> FALSE, env |-> e]
             ELSE ReadGlyphs(fnt, n + 1,
                    [e EXCEPT
                       !.unicode_glyph_map =
                           IF glyph.unicode # -1
                           THEN Append(@, <<glyph.unicode, glyph.originalgid>>) ELSE @,
                       !.glyph_name_id_map =
                           [nm \in names |-> IF nm = glyph.glyphname
                                             THEN glyph.originalgid
                                             ELSE e.glyph_name_id_map[nm]],
                       !.glyphs = Append(@, r.glyph),
                       !.ligas = @ \o read_ligatures(glyph)])

\* parse_otf up to the `with open(...)`: everything is read before anything is written
ReadFont ==
    /\ pc = "read"
    /\ LET e0 == [env EXCEPT
                    !.math_consts = IF env.is_math_font THEN read_math_consts(font) ELSE <<>>,
                    !.kern_class_tables = read_kerning_class(font)]
           r  == ReadGlyphs(font, 1, e0)
       IN  /\ env' = r.env
           /\ pc' = IF r.ok THEN "open" ELSE "raised"
    /\ UNCHANGED <<argc, font, f, forest, k, v, data>>

\* open(output_file_path, 'wb') creates the file, or empties it
OpenOutput ==
    /\ pc = "open"
    /\ f' = [exists |-> TRUE, chunks |-> <<>>]
    /\ pc' = "magic"
    /\ UNCHANGED <<argc, font, env, forest, k, v, data>>

\* what a writer wrote is in the file, whether it returned or raised; leaving the
\* with block on an exception closes the file and keeps it
Emit(r, next) ==
    /\ f' = [f EXCEPT !.chunks = @ \o r.chunks]
    /\ pc' = IF r.ok THEN next ELSE "raised"

WriteMagic ==
    /\ pc = "magic"
    /\ Emit(Wrote(<<Chunk("magic", <<"c", "l", "m">>)>>), "major")
    /\ UNCHANGED <<argc, font, env, forest, k, v, data>>

WriteMajor ==
    /\ pc = "major"
    /\ Emit(Wrote(<<Chunk("major", <<2>>)>>), "minor")
    /\ UNCHANGED <<argc, font, env, forest, k, v, data>>

WriteMinor ==
    /\ pc = "minor"
    /\ Emit(Wrote(<<Chunk("minor", <<IF env.have_glyph_path THEN 2 ELSE 1>>)>>), "math_flag")
    /\ UNCHANGED <<argc, font, env, forest, k, v, data>>

WriteMathFlag ==
    /\ pc = "math_flag"
    /\ Emit(Wrote(<<Chunk("math_flag", <<PackBool(env.is_math_font)>>)>>), "metrics")
    /\ UNCHANGED <<argc, font, env, forest, k, v, data>>

WriteFontMetrics ==
    /\ pc = "metrics"
    /\ Emit(Wrote(<<Chunk("metrics", <<font.em, IntOfHalves(font.xHeight),
                                       font.ascent, font.descent>>)>>), "unicode")
    /\ UNCHANGED <<argc, font, env, forest, k, v, data>>

WriteUnicodeMap ==
    /\ pc = "unicode"
    /\ Emit(write_clm_unicode_glyph_map(env.unicode_glyph_map), "kerning")
    /\ UNCHANGED <<argc, font, env, forest, k, v, data>>

WriteKerningClass ==
    /\ pc = "kerning"
    /\ Emit(write_clm_kerning_class(env.kern_class_tables, env.glyph_name_id_map), "ligas")
    /\ env' = [env EXCEPT !.kern_class_tables = Exhausted(@)]
    /\ UNCHANGED <<argc, font, forest, k, v, data>>

WriteLigas ==
    /\ pc = "ligas"
    /\ Emit(write_ligas(env.ligas, env.glyph_name_id_map), "math_consts")
    /\ UNCHANGED <<argc, font, env, forest, k, v, data>>

\* WriteMathConsts without its `if is_math_font`
WriteMathConstsAlways ==
    /\ pc = "math_consts"
    /\ Emit(write_math_consts(env.math_consts), "glyphs")
    /\ UNCHANGED <<argc, font, env, forest, k, v, data>>

\* `if is_math_font: write_math_consts(f, math_consts)`
WriteMathConsts ==
    /\ pc = "math_consts"
    /\ Emit(IF env.is_math_font THEN write_math_consts(env.math_consts) ELSE Wrote(<<>>),
            "glyphs")
    /\ UNCHANGED <<argc, font, env, forest, k, v, data>>

WriteGlyphs ==
    /\ pc = "glyphs"
    /\ Emit(write_glyphs(env.glyphs, env.glyph_name_id_map,
                         env.is_math_font, env.have_glyph_path), "close")
    /\ UNCHANGED <<argc, font, env, forest, k, v, data>>

\* the with block ends, font.close(), parse_otf and main return
CloseFont ==
    /\ pc = "close"
    /\ pc' = "done"
    /\ UNCHANGED <<argc, font, env, f, forest, k, v, data>>

Next ==
    \/ MainUsage
    \/ MainIndexError
    \/ MainCall
    \/ ReadFont
    \/ OpenOutput
    \/ WriteMagic
    \/ WriteMajor
    \/ WriteMinor
    \/ WriteMathFlag
    \/ WriteFontMetrics
    \/ WriteUnicodeMap
    \/ WriteKerningClass
    \/ WriteLigas
    \/ WriteMathConsts
    \/ WriteGlyphs
    \/ CloseFont

Spec == Init /\ [][Next]_vars

----------------------------------------------------------------------------
(* write_clm_kerning_class on its own: the argument is a list of tables or    *)
(* an iterator over them, the file is open and empty.                         *)

\* the name -> id map parse_otf builds for the glyphs a, b, c
NameIds == [nm \in {"a", "b", "c"} |-> IF nm = "a" THEN 0 ELSE IF nm = "b" THEN 1 ELSE 2]

KerningTables == {KerningTable(rows, cols) : rows \in 1..MaxClasses, cols \in 1..MaxClasses}

InitKern ==
    /\ pc = "kerning"
    /\ argc = 0
    /\ \E ts \in SeqsUpTo(KerningTables, MaxTables) :
          /\ font = [NoFont EXCEPT !.kerning_classes = ts]
          /\ \E arg \in {PyList(ts), PyIter(ts)} :
                env = [NoEnv EXCEPT !.kern_class_tables = arg,
                                    !.glyph_name_id_map = NameIds]
    /\ f = [exists |-> TRUE, chunks |-> <<>>]
    /\ forest = <<>>
    /\ k = 0
    /\ v = <<>>
    /\ data = <<>>

CallWriteKerningClass ==
    /\ pc = "kerning"
    /\ Emit(write_clm_kerning_class(env.kern_class_tables, env.glyph_name_id_map),
            "returned")
    /\ env' = [env EXCEPT !.kern_class_tables = Exhausted(@)]
    /\ UNCHANGED <<argc, font, forest, k, v, data>>

NextKern == CallWriteKerningClass

SpecKern == InitKern /\ [][NextKern]_vars

----------------------------------------------------------------------------
(* write_ligas on its own, one rule at a time.                              *)

\* the component names of a rule: one, two or three glyphs, prefixes of one another
\* among them
LigaSeqs ==
    { <<"a">>, <<"b">>, <<"a", "a">>, <<"a", "b">>, <<"b", "a">>, <<"a", "a", "b">> }
LigaResults == {10, 11}

\* rules over the names of the font, and one rule that names no glyph
LigaRules ==
    {[chars |-> s, liga |-> r] : s \in LigaSeqs, r \in LigaResults}
        \cup {[chars |-> <<"a", "zz">>, liga |-> 10]}

InitLigas ==
    /\ pc = "fold"
    /\ argc = 0
    /\ font = NoFont
    /\ \E rules \in SeqsUpTo(LigaRules, MaxRules) :
          env = [NoEnv EXCEPT !.ligas = rules, !.glyph_name_id_map = NameIds]
    /\ f = [exists |-> TRUE, chunks |-> <<>>]
    /\ forest = <<>>
    /\ k = 0
    /\ v = <<>>
    /\ data = <<>>

\* one iteration of `for (chars, liga,) in ligas: add_node(...)`
LigasAddNode ==
    /\ pc = "fold"
    /\ k < Len(env.ligas)
    /\ LET r == add_node(forest, env.ligas[k + 1], env.glyph_name_id_map)
       IN  /\ forest' = r.children
           /\ pc' = IF r.ok THEN "fold" ELSE "raised"
    /\ k' = k + 1
    /\ UNCHANGED <<argc, font, env, f, v, data>>

\* the loop is over: forest = sort_children(forest), write_node(root)
LigasSortWrite ==
    /\ pc = "fold"
    /\ k = Len(env.ligas)
    /\ forest' = sort_children(forest)
    /\ Emit(Wrote(<<Chunk("ligas", WriteTrie(forest))>>), "returned")
    /\ UNCHANGED <<argc, font, env, k, v, data>>

NextLigas == LigasAddNode \/ LigasSortWrite

SpecLigas == InitLigas /\ [][NextLigas]_vars

----------------------------------------------------------------------------
(* read_glyph_path on its own: the path description is tokens separated by   *)
(* single spaces.                                                            *)

PathTokens ==
    { <<"M">>, <<"h">>, <<"Z">>, <<"x">>, <<"1", "2">>, <<"-", "2">>, <<"1", ".", "5">> }

RECURSIVE Join(_)
Join(toks) ==
    IF toks = <<>> THEN <<>>
    ELSE IF Len(toks) = 1 THEN Head(toks)
    ELSE Head(toks) \o <<" ">> \o Join(Tail(toks))

InitPath ==
    /\ pc = "parse"
    /\ argc = 0
    /\ font = NoFont
    /\ env = NoEnv
    /\ f = NoFile
    /\ forest = <<>>
    /\ k = 0
    /\ \E toks \in SeqsUpTo(PathTokens, MaxTokens) : v = Join(toks)
    /\ data = <<>>

\* the `while i < len(v)` loop
PathParse ==
    /\ pc = "parse"
    /\ LET r == ParsePath(v)
       IN  /\ data' = r.data
           /\ pc' = IF r.ok THEN "mirror" ELSE "raised"
    /\ UNCHANGED <<argc, font, env, f, forest, k, v>>

\* mirror(data); return data
PathMirror ==
    /\ pc = "mirror"
    /\ data' = mirror(data)
    /\ pc' = "returned"
    /\ UNCHANGED <<argc, font, env, f, forest, k, v>>

NextPath == PathParse \/ PathMirror

SpecPath == InitPath /\ [][NextPath]_vars

----------------------------------------------------------------------------
(* The claims about main and parse_otf (specification Spec).                *)

\* the section a chunk belongs to
SectionOf(tag) ==
    IF tag \in {"kc_count", "kc_left", "kc_right", "kc_values"} THEN "kerning"
    ELSE IF tag \in {"glyph_count", "glyph_metrics", "glyph_kerns", "glyph_math",
                     "glyph_path"} THEN "glyphs"
    ELSE tag

\* the sections of the file in order, a run of chunks of one section counted once
RECURSIVE Sections(_)
Sections(chunks) ==
    IF chunks = <<>> THEN <<>>
    ELSE LET rest == Sections(Tail(chunks))
             sec  == SectionOf(Head(chunks).tag)
         IN  IF rest # <<>> /\ Head(rest) = sec THEN rest ELSE <<sec>> \o rest

ChunksTagged(chunks, tag) == SelectSeq(chunks, LAMBDA c : c.tag = tag)

SectionsInOrder(is_math_font) ==
    <<"magic", "major", "minor", "math_flag", "metrics", "unicode", "kerning", "ligas">>
        \o (IF is_math_font THEN <<"math_consts">> ELSE <<>>)
        \o <<"glyphs">>

\* the file holds every section once, in the order of the format
CompleteArtifact ==
    /\ f.exists
    /\ Sections(f.chunks) = SectionsInOrder(env.is_math_font)
    /\ \A tag \in {"magic", "major", "minor", "math_flag", "metrics", "unicode",
                   "kc_count", "ligas", "glyph_count"} :
          Len(ChunksTagged(f.chunks, tag)) = 1
    /\ Len(ChunksTagged(f.chunks, "math_consts")) = PackBool(env.is_math_font)
    /\ f.chunks[1].data = <<"c", "l", "m">>
    /\ f.chunks[2].data = <<2>>
    /\ f.chunks[3].data = <<IF env.have_glyph_path THEN 2 ELSE 1>>
    /\ f.chunks[4].data = <<PackBool(env.is_math_font)>>

\* C1: a completed run of parse_otf has written the magic, major version 2, the
\* minor version (2 with paths, else 1), the math-font flag, the four font metrics,
\* the unicode map, the kerning class tables, the ligature trie, the math constants
\* and the glyph array, in this order and each once; the math constants are there
\* exactly when the math-font flag is set.
C1_SectionsInOrder == pc = "done" => CompleteArtifact

C1_Witness ==
    /\ pc = "done"
    /\ env.is_math_font
    /\ env.have_glyph_path
    /\ Len(font.kerning_classes) > 0
    /\ Len(ChunksTagged(f.chunks, "math_consts")) = 1

AfterKerning == {"ligas", "math_consts", "glyphs", "close", "done"}

\* C3: once parse_otf has passed the tables of read_kerning_class to
\* write_clm_kerning_class, the file holds the table count N and then the bodies of
\* exactly N tables.
C3_BodiesMatchCount ==
    pc \in AfterKerning =>
        /\ ChunksTagged(f.chunks, "kc_count")[1].data = <<Len(font.kerning_classes)>>
        /\ Len(ChunksTagged(f.chunks, "kc_values")) = Len(font.kerning_classes)

\* what C4 says write_kerns emits for a glyph: the number of its pairs with a
\* kerning other than 0, then (target id, value) for each, ascending by target id
KernsPerClaim(glyph, glyph_name_id_map) ==
    LET pairs == SelectSeq(glyph.kern_infos, LAMBDA kern_info : kern_info[2] # 0)
    IN  <<Len(pairs)>> \o Flatten(SortedByFirst(ResolvePairs(pairs, glyph_name_id_map)))

\* C4: for every glyph, what write_kerns wrote is the count K of the pairs read_kern
\* produced followed by exactly K (target id, value) entries ascending by target id.
C4_KernEntriesMatchCount ==
    pc \in {"close", "done"} =>
        \A n \in 1..Len(font.glyphs) :
            ChunksTagged(f.chunks, "glyph_kerns")[n].data
                = KernsPerClaim(font.glyphs[n], env.glyph_name_id_map)

RunEnded == pc \in {"done", "raised", "usage"}

\* C6: a run that ended either completed and left the complete artifact, or did not
\* complete and left no output file.
C6_AllOrNothing ==
    RunEnded => IF pc = "done" THEN CompleteArtifact ELSE ~f.exists

\* C9: with any of the four arguments missing (fewer than 5 entries in sys.argv),
\* main prints the usage text and returns: it neither raises nor starts a conversion.
C9_MissingArgumentPrintsUsage ==
    (argc < 5 /\ pc # "main") => pc = "usage"

----------------------------------------------------------------------------
(* The claims about write_clm_kerning_class (specification SpecKern).       *)

CallEnded == pc \in {"returned", "raised"}

\* the cells of a table with row >= 1 and column >= 1, in row-major order
InnerCells(table) ==
    LET rows == Len(table.left)
        cols == Len(table.right)
    IN  [q \in 1..((rows - 1) * (cols - 1)) |->
            table.value[(((q - 1) \div (cols - 1)) + 1) * cols
                        + ((q - 1) % (cols - 1)) + 1 + 1]]

\* what the n-th chunk with this tag holds; nothing when there is no such chunk
Emitted(tag, n) ==
    LET cs == ChunksTagged(f.chunks, tag)
    IN  IF n <= Len(cs) THEN cs[n].data ELSE <<>>

\* C2: for every table of the argument, write_clm_kerning_class emits exactly the
\* (R-1)*(C-1) cells with row >= 1 and column >= 1, in row-major order.
C2_InnerCellsEmitted ==
    CallEnded =>
        \A n \in 1..Len(font.kerning_classes) :
            Emitted("kc_values", n) = InnerCells(font.kerning_classes[n])

\* the ids of the names, ascending
SortedIds(names, glyph_name_id_map) ==
    Flatten(SortedByFirst([p \in 1..Len(names) |-> <<glyph_name_id_map[names[p]]>>]))

\* what C8 says is emitted for one side: the number of buckets after the first,
\* then each bucket's member count and its member ids ascending
SidePerClaim(side, glyph_name_id_map) ==
    LET buckets == Rest(side)
    IN  <<Len(buckets)>>
            \o Flatten([b \in 1..Len(buckets) |->
                          <<Len(buckets[b])>> \o SortedIds(buckets[b], glyph_name_id_map)])

\* C8: for each table and each side, left then right, write_clm_kerning_class emits
\* the number of non-sentinel buckets and then, per bucket in order, the member count
\* and the member ids ascending.
C8_BucketListsEmitted ==
    CallEnded =>
        \A n \in 1..Len(font.kerning_classes) :
            /\ Emitted("kc_left", n)
                  = SidePerClaim(font.kerning_classes[n].left, env.glyph_name_id_map)
            /\ Emitted("kc_right", n)
                  = SidePerClaim(font.kerning_classes[n].right, env.glyph_name_id_map)

----------------------------------------------------------------------------
(* The claims about write_ligas (specification SpecLigas).                  *)

Resolvable(rule) == \A p \in 1..Len(rule.chars) : rule.chars[p] \in DOMAIN env.glyph_name_id_map
IdsOf(rule) == [p \in 1..Len(rule.chars) |-> env.glyph_name_id_map[rule.chars[p]]]

\* the rules folded in so far
Processed == SubSeq(env.ligas, 1, k)
RuleSeqs == {IdsOf(Processed[n]) : n \in 1..Len(Processed)}
LastResult(s) ==
    LET last == CHOOSE n \in 1..Len(Processed) :
                    /\ IdsOf(Processed[n]) = s
                    /\ \A m \in (n + 1)..Len(Processed) : IdsOf(Processed[m]) # s
    IN  Processed[last].liga

\* the liga of every node reached from the list `children` by following s
RECURSIVE LigasAt(_, _)
LigasAt(children, s) ==
    Flatten([p \in 1..Len(children) |->
               IF children[p].glyph # Head(s) THEN <<>>
               ELSE IF Len(s) = 1 THEN <<children[p].liga>>
               ELSE LigasAt(children[p].children, Tail(s))])

\* the paths of all nodes below the list `children`
RECURSIVE NodePaths(_)
NodePaths(children) ==
    UNION {{<<children[p].glyph>>}
             \cup {<<children[p].glyph>> \o q : q \in NodePaths(children[p].children)}
           : p \in 1..Len(children)}

\* the serialization of the rule map: below prefix p, the children in ascending id
Prefixes == UNION {{SubSeq(s, 1, n) : n \in 1..Len(s)} : s \in RuleSeqs}
ChildIds(p) == {q[Len(q)] : q \in {r \in Prefixes : Len(r) = Len(p) + 1
                                                    /\ SubSeq(r, 1, Len(p)) = p}}
RECURSIVE MapNode(_)
RECURSIVE MapChildren(_, _)
MapNode(p) ==
    <<IF p = <<>> THEN 0 ELSE p[Len(p)],
      IF p \in RuleSeqs THEN LastResult(p) ELSE -1,
      Cardinality(ChildIds(p))>> \o MapChildren(p, ChildIds(p))
MapChildren(p, ids) ==
    IF ids = {} THEN <<>>
    ELSE LET least == CHOOSE g \in ids : \A h \in ids : g <= h
         IN  MapNode(Append(p, least)) \o MapChildren(p, ids \ {least})

\* C10: while write_ligas folds rules in, and after it has written the trie, the node
\* reached by a rule's id sequence carries the result of the last rule processed with
\* that sequence, every other node carries -1, and what is written is the rule map's
\* trie from the root (glyph 0, result -1) with children ascending by id.
C10_TrieIsRuleMap ==
    pc \in {"fold", "returned"} =>
        /\ \A s \in RuleSeqs : LigasAt(forest, s) = <<LastResult(s)>>
        /\ \A s \in NodePaths(forest) \ RuleSeqs : LigasAt(forest, s) = <<-1>>
        /\ pc = "returned" => f.chunks = <<Chunk("ligas", MapNode(<<>>))>>

IsProperPrefix(s, t) == Len(s) < Len(t) /\ SubSeq(t, 1, Len(s)) = s

\* a longer rule is folded in before its proper prefix, and a sequence occurs twice
\* with different results
C10_Witness ==
    /\ pc = "returned"
    /\ \E i, j \in 1..Len(env.ligas) :
          i < j /\ IsProperPrefix(env.ligas[j].chars, env.ligas[i].chars)
    /\ \E i, j \in 1..Len(env.ligas) :
          /\ i < j
          /\ env.ligas[i].chars = env.ligas[j].chars
          /\ env.ligas[i].liga # env.ligas[j].liga

\* no two rules resolve to the same id sequence with different results
NoConflict(rules) ==
    \A i, j \in 1..Len(rules) :
        (Resolvable(rules[i]) /\ Resolvable(rules[j]) /\ IdsOf(rules[i]) = IdsOf(rules[j]))
            => rules[i].liga = rules[j].liga

Permuted(rules, perm) == [p \in 1..Len(rules) |-> rules[perm[p]]]

\* write_ligas on every permutation of the rules does what this call did
SameForEveryOrder ==
    \A perm \in Permutations(1..Len(env.ligas)) :
        LET r == write_ligas(Permuted(env.ligas, perm), env.glyph_name_id_map)
        IN  /\ r.ok = (pc = "returned")
            /\ r.chunks = f.chunks

\* C5 as stated: for every list of rules and every permutation of it, write_ligas
\* produces the identical serialization.
C5_AnyOrderSameBytes == CallEnded => SameForEveryOrder

\* C5 amended: for every list of rules in which no two rules with the same id
\* sequence have different results, every permutation of the list gives the
\* identical serialization (or raises, if the list names an unknown glyph).
C5_AnyOrderSameBytesNoConflict ==
    (CallEnded /\ NoConflict(env.ligas)) => SameForEveryOrder

\* two rules with different sequences, folded in against the order of their ids
C5_Witness ==
    /\ pc = "returned"
    /\ NoConflict(env.ligas)
    /\ Len(env.ligas) >= 2
    /\ IdsOf(env.ligas[1])[1] > IdsOf(env.ligas[2])[1]

----------------------------------------------------------------------------
(* The claim about the path parser (specification SpecPath).                *)

\* the tokens of a string, split at spaces
RECURSIVE SplitAtSpaces(_, _)
SplitAtSpaces(s, tok) ==
    IF s = <<>> THEN (IF tok = <<>> THEN <<>> ELSE <<tok>>)
    ELSE IF Head(s) = " "
         THEN (IF tok = <<>> THEN <<>> ELSE <<tok>>) \o SplitAtSpaces(Tail(s), <<>>)
         ELSE SplitAtSpaces(Tail(s), Append(tok, Head(s)))

OpcodeLetters ==
    {"M", "m", "L", "l", "T", "t", "H", "h", "V", "v", "C", "c", "S", "s", "Q", "q",
     "Z", "z"}

IsOpcode(tok) == Len(tok) = 1 /\ tok[1] \in OpcodeLetters

\* a number: an optional '-', then digits that may contain one '.'
IsNumber(tok) ==
    LET body == IF tok # <<>> /\ Head(tok) = "-" THEN Tail(tok) ELSE tok
    IN  /\ \E p \in 1..Len(body) : body[p] \in DigitChars
        /\ \A p \in 1..Len(body) : body[p] \in DigitChars \cup {"."}
        /\ Cardinality({p \in 1..Len(body) : body[p] = "."}) <= 1

\* the operand count C7 gives each opcode
OperandCount(x) ==
    IF x \in {"M", "m", "L", "l", "T", "t"} THEN 2
    ELSE IF x \in {"H", "h", "V", "v"} THEN 1
    ELSE IF x \in {"C", "c"} THEN 6
    ELSE IF x \in {"S", "s", "Q", "q"} THEN 4
    ELSE 0

\* opcode letters, each followed by exactly its operand count of numbers
RECURSIVE WellFormed(_)
WellFormed(toks) ==
    IF toks = <<>> THEN TRUE
    ELSE /\ IsOpcode(Head(toks))
         /\ LET n == OperandCount(Head(toks)[1])
            IN  /\ Len(toks) >= 1 + n
                /\ \A p \in 2..(1 + n) : IsNumber(toks[p])
                /\ WellFormed(SubSeq(toks, 2 + n, Len(toks)))

OpcodesOf(toks) == SelectSeq(toks, IsOpcode)

\* C7: a path description of recognized opcode letters, each followed by exactly its
\* operand count of numbers, is parsed without error into one command per opcode
\* letter, in order, each with that opcode's count of operands.
C7_WellFormedPathParses ==
    (pc # "parse" /\ WellFormed(SplitAtSpaces(v, <<>>))) =>
        LET ops == OpcodesOf(SplitAtSpaces(v, <<>>))
        IN  /\ pc # "raised"
            /\ Len(data) = Len(ops)
            /\ \A n \in 1..Len(ops) :
                  /\ data[n].op = ops[n][1]
                  /\ Len(data[n].args) = OperandCount(ops[n][1])

----------------------------------------------------------------------------
(* mirror on its own: the argument is a command list as the parser builds    *)
(* them, every command with the operand count of its opcode.                 *)

MirrorOpcodes ==
    {"M", "m", "L", "l", "T", "t", "H", "h", "V", "v", "C", "c", "S", "s", "Q", "q",
     "Z", "z"}

\* the first operand of a command; operand p is the first plus p - 1, so the
\* operands of a command differ, and with -2 they are negative, 0 and positive
FirstOperands == {1, -2}

PathCommands ==
    {[op |-> x, args |-> [p \in 1..Max(0, path_cmd_arg_cnt(x)) |-> a + p - 1]]
       : x \in MirrorOpcodes, a \in FirstOperands}

InitMirror ==
    /\ pc = "mirror"
    /\ argc = 0
    /\ font = NoFont
    /\ env = NoEnv
    /\ f = NoFile
    /\ forest = <<>>
    /\ k = 0
    /\ v = <<>>
    /\ data \in SeqsUpTo(PathCommands, MaxCmds)

NextMirror == PathMirror

SpecMirror == InitMirror /\ [][NextMirror]_vars

\* the positions (1 is the first operand) of the operands C11 calls vertical
VerticalPositions(x) ==
    IF x \in {"M", "m", "L", "l", "T", "t"} THEN {2}
    ELSE IF x \in {"V", "v"} THEN {1}
    ELSE IF x \in {"C", "c"} THEN {2, 4, 6}
    ELSE IF x \in {"S", "s", "Q", "q"} THEN {2, 4}
    ELSE {}

\* C11: a step of mirror keeps the number and order of the commands, every opcode
\* and every operand count, negates each command's vertical operands (the second
\* for M/L/T, the only one for V, the second, fourth and sixth for C, the second
\* and fourth for S/Q) and leaves every other operand, so all of H and Z, as it was.
C11_MirrorNegatesVertical ==
    [][pc = "mirror" =>
          /\ Len(data') = Len(data)
          /\ \A n \in 1..Len(data) :
                /\ data'[n].op = data[n].op
                /\ Len(data'[n].args) = Len(data[n].args)
                /\ \A p \in 1..Len(data[n].args) :
                      data'[n].args[p] = IF p \in VerticalPositions(data[n].op)
                                         THEN -data[n].args[p]
                                         ELSE data[n].args[p]]_vars

\* mirror has returned a cubic curve with its three vertical operands negated,
\* followed by a horizontal line
C11_Witness ==
    /\ pc = "returned"
    /\ Len(data) = 2
    /\ data[1] = [op |-> "C", args |-> <<1, -2, 3, -4, 5, -6>>]
    /\ data[2] = [op |-> "h", args |-> <<1>>]

=============================================================================
